---- MODULE Spec2Model ----
(***************************************************************************)
(* becool.py: ask for a zip code, find the zip codes within RADIUS miles,  *)
(* fetch current and forecast-max temperature for each, report the coolest.*)
(*                                                                         *)
(* Zip codes and input strings are sequences of digits.  Coordinates are   *)
(* integers on a mile grid whose origin is (37.77, -122.41).  A Python     *)
(* dict is a record [keys, val]: keys is the insertion order, val the      *)
(* mapping.  Temperatures are integers counting quarter degrees            *)
(* Fahrenheit; a rounded temperature counts tenths of a degree.            *)
(***************************************************************************)
EXTENDS Integers, Sequences, FiniteSets, TLC

VARIABLES
    db,               \* the uszipcode database the SearchEngine reads
    pc,               \* the statement of main() that runs next
    input,            \* the string typed at "Enter your zip code: "
    z,                \* result of search.by_zipcode: <<>> is None
    loc_data,         \* main: loc_data
    zip_code,         \* main: zip_code (after get_zip_basics)
    nearby_locs,      \* main: nearby_locs
    responses,        \* get_weather: responses, in the order received
    weather_results,  \* main: weather_results
    coolest_zip,      \* main: coolest_zip
    output,           \* the lines printed in the current iteration
    steps,            \* the steps of the current iteration, in order
    failure           \* the uncaught exception that ended the process

vars == <<db, pc, input, z, loc_data, zip_code, nearby_locs, responses,
          weather_results, coolest_zip, output, steps, failure>>

----------------------------------------------------------------------------
(* Bounds and program constants *)

MaxTemp == 2

Temps == 280 .. (280 + MaxTemp)

RADIUS == 10

ZIP_94101 == <<9, 4, 1, 0, 1>>

DEFAULT_ZIP_DATA ==
    [keys |-> <<ZIP_94101>>,
     val  |-> [k \in {ZIP_94101} |-> [city |-> "San Francisco", lat |-> 0, lng |-> 0]]]

----------------------------------------------------------------------------
(* Python dicts *)

EmptyDict == [keys |-> <<>>, val |-> [k \in {} |-> 0]]

Keys(d) == {d.keys[i] : i \in 1..Len(d.keys)}

DictSet(d, k, v) ==
    IF k \in Keys(d)
    THEN [keys |-> d.keys, val |-> [d.val EXCEPT ![k] = v]]
    ELSE [keys |-> Append(d.keys, k),
          val  |-> [x \in Keys(d) \cup {k} |-> IF x = k THEN v ELSE d.val[x]]]

----------------------------------------------------------------------------
(* The zip-code database and the two SearchEngine queries the program uses *)

SFZips ==
    { [zipcode |-> <<9, 4, 1, 0, 2>>, zipcode_type |-> "Standard",
       major_city |-> "San Francisco", lat |-> 0, lng |-> 1],
      [zipcode |-> <<9, 4, 1, 0, 3>>, zipcode_type |-> "Standard",
       major_city |-> "San Francisco", lat |-> 1, lng |-> 0],
      [zipcode |-> <<9, 4, 9, 6, 5>>, zipcode_type |-> "Standard",
       major_city |-> "Sausalito", lat |-> 9, lng |-> 9] }

OtherZips ==
    { [zipcode |-> <<0, 1, 0, 0, 1>>, zipcode_type |-> "Standard",
       major_city |-> "Agawam", lat |-> 200, lng |-> 0],
      [zipcode |-> <<0, 0, 5, 0, 1>>, zipcode_type |-> "Unique",
       major_city |-> "Holtsville", lat |-> 100, lng |-> 100] }

Rec94101(type) ==
    [zipcode |-> ZIP_94101, zipcode_type |-> type,
     major_city |-> "San Francisco", lat |-> 0, lng |-> 0]

ZipDatabases ==
    { SFZips \cup OtherZips,
      SFZips \cup OtherZips \cup {Rec94101("PO Box")},
      SFZips \cup OtherZips \cup {Rec94101("Standard")} }

Inputs ==
    { <<9, 4, 1, 0, 2>>, <<9, 4, 1, 0, 3>>, <<9, 4, 9, 6, 5>>, ZIP_94101,
      <<0, 1, 0, 0, 1>>, <<1, 0, 0, 1>>, <<0, 0, 5, 0, 1>>, <<5, 0, 1>>,
      <<9, 9, 9, 9, 9>>, <<>> }

\* str.zfill(width)
ZFill(s, width) ==
    IF Len(s) >= width THEN s ELSE [i \in 1..(width - Len(s)) |-> 0] \o s

\* search.by_zipcode(zip_code): the input is left-padded with zeros to five
\* characters and matched exactly, whatever the type of the zip code.
by_zipcode(database, zc) ==
    LET hits == {r \in database : r.zipcode = ZFill(zc, 5)}
    IN  IF hits = {} THEN <<>> ELSE <<CHOOSE r \in hits : TRUE>>

Dist2(r, lat, lng) == (r.lat - lat) * (r.lat - lat) + (r.lng - lng) * (r.lng - lng)

\* search.by_coordinates(lat, lng, radius=rad, returns=None): the zip codes
\* of type Standard within the radius, nearest first; the order of equally
\* distant zip codes is the database's choice.  The set of possible results.
by_coordinates(database, lat, lng, rad) ==
    LET within == {r \in database : /\ r.zipcode_type = "Standard"
                                    /\ Dist2(r, lat, lng) <= rad * rad}
        n == Cardinality(within)
    IN  {s \in [1..n -> within] :
            /\ \A i, j \in 1..n : i # j => s[i] # s[j]
            /\ \A i, j \in 1..n : i < j => Dist2(s[i], lat, lng) <= Dist2(s[j], lat, lng)}

----------------------------------------------------------------------------
(* Printed lines *)

Line(msg, city, zip, temp) == [msg |-> msg, city |-> city, zip |-> zip, temp |-> temp]

Text(msg) == Line(msg, "", <<>>, 0)

\* round(t, 1) of a temperature of t quarter degrees, in tenths of a degree:
\* the value is 5t/2 tenths; Python rounds an exact half to the even tenth.
Round1(t) ==
    LET q == (5 * t) \div 2
    IN  IF (5 * t) % 2 = 0 THEN q
        ELSE IF q % 2 = 0 THEN q ELSE q + 1

----------------------------------------------------------------------------
(* The functions of becool.py *)

ZipRecord(r) == [city |-> r.major_city, lat |-> r.lat, lng |-> r.lng]

\* get_zip_basics without line 69: the fallback returns the empty zip_data.
get_zip_basics_NoDefaultData(database, zc) ==
    LET found == by_zipcode(database, zc)
    IN  IF found = <<>>
        THEN [z        |-> found,
              zip_data |-> EmptyDict,
              zip_code |-> ZIP_94101,
              printed  |-> <<Text("Zipcode not found."), Text("Defaulting to 94101.")>>]
        ELSE [z        |-> found,
              zip_data |-> DictSet(EmptyDict, found[1].zipcode, ZipRecord(found[1])),
              zip_code |-> zc,
              printed  |-> <<>>]

\* get_zip_basics(zip_code): the lookup result, the returned pair
\* (zip_data, zip_code) and the lines printed.
get_zip_basics(database, zc) ==
    LET found == by_zipcode(database, zc)
    IN  IF found = <<>>
        THEN [z        |-> found,
              zip_data |-> DEFAULT_ZIP_DATA,
              zip_code |-> ZIP_94101,
              printed  |-> <<Text("Zipcode not found."), Text("Defaulting to 94101.")>>]
        ELSE [z        |-> found,
              zip_data |-> DictSet(EmptyDict, found[1].zipcode, ZipRecord(found[1])),
              zip_code |-> zc,
              printed  |-> <<>>]

RECURSIVE LocalZipsLoop(_, _, _)
LocalZipsLoop(result, i, acc) ==
    IF i > Len(result) THEN acc
    ELSE LocalZipsLoop(result, i + 1,
                       DictSet(acc, result[i].zipcode, ZipRecord(result[i])))

\* get_local_zips(lat, lng, rad), given the result of by_coordinates
get_local_zips(result) == LocalZipsLoop(result, 1, EmptyDict)

Reverse(s) == [i \in 1..Len(s) |-> s[Len(s) + 1 - i]]

\* get_lat_long_params with the zip codes listed in the opposite order to
\* the coordinates.
get_lat_long_params_ZipsReversed(nl) ==
    [zip_codes  |-> Reverse(nl.keys),
     latitudes  |-> [i \in 1..Len(nl.keys) |-> nl.val[nl.keys[i]].lat],
     longitudes |-> [i \in 1..Len(nl.keys) |-> nl.val[nl.keys[i]].lng]]

\* get_lat_long_params(nearby_locs)
get_lat_long_params(nl) ==
    [zip_codes  |-> nl.keys,
     latitudes  |-> [i \in 1..Len(nl.keys) |-> nl.val[nl.keys[i]].lat],
     longitudes |-> [i \in 1..Len(nl.keys) |-> nl.val[nl.keys[i]].lng]]

\* openmeteo.weather_api(API_BASE_URL, params) when the request succeeds:
\* one response per coordinate pair sent, in the order sent, each naming the
\* coordinates it answers.  The set of possible response lists.
weather_api(latitudes, longitudes) ==
    LET n == Len(latitudes)
    IN  { [i \in 1..n |-> [Latitude  |-> latitudes[i],
                           Longitude |-> longitudes[i],
                           current   |-> t[i][1],
                           daily_max |-> t[i][2]]] : t \in [1..n -> Temps \X Temps] }

RECURSIVE WeatherLoop(_, _, _, _, _)
WeatherLoop(nl, zip_codes, resp, i, acc) ==
    IF i > Len(resp) THEN acc
    ELSE LET zc == zip_codes[i]
         IN  WeatherLoop(nl, zip_codes, resp, i + 1,
                 DictSet(acc, zc, [city      |-> nl.val[zc].city,
                                   lat       |-> resp[i].Latitude,
                                   lng       |-> resp[i].Longitude,
                                   curr_temp |-> resp[i].current,
                                   max_temp  |-> resp[i].daily_max]))

\* get_weather(nearby_locs), given the responses the API returned
get_weather(nl, resp) ==
    WeatherLoop(nl, get_lat_long_params(nl).zip_codes, resp, 1, EmptyDict)

Comparing(wr, zc) == Line("Comparing to", "", zc, Round1(wr.val[zc].max_temp))

\* The scan without line 245: coolest_max_temp stays the origin's max_temp.
RECURSIVE CoolestLoop_StaleMax(_, _, _, _, _)
CoolestLoop_StaleMax(wr, i, cz, ct, printed) ==
    IF i > Len(wr.keys)
    THEN [coolest_zip |-> cz, printed |-> Append(printed, Text("Result found!"))]
    ELSE LET zc == wr.keys[i]
             p  == Append(printed, Comparing(wr, zc))
         IN  IF wr.val[zc].max_temp < ct
             THEN CoolestLoop_StaleMax(wr, i + 1, zc, ct, p)
             ELSE CoolestLoop_StaleMax(wr, i + 1, cz, ct, p)

\* The scan with <= for < on line 243.
RECURSIVE CoolestLoop_LessEq(_, _, _, _, _)
CoolestLoop_LessEq(wr, i, cz, ct, printed) ==
    IF i > Len(wr.keys)
    THEN [coolest_zip |-> cz, printed |-> Append(printed, Text("Result found!"))]
    ELSE LET zc == wr.keys[i]
             p  == Append(printed, Comparing(wr, zc))
         IN  IF wr.val[zc].max_temp <= ct
             THEN CoolestLoop_LessEq(wr, i + 1, zc, wr.val[zc].max_temp, p)
             ELSE CoolestLoop_LessEq(wr, i + 1, cz, ct, p)

RECURSIVE CoolestLoop(_, _, _, _, _)
CoolestLoop(wr, i, cz, ct, printed) ==
    IF i > Len(wr.keys)
    THEN [coolest_zip |-> cz, printed |-> Append(printed, Text("Result found!"))]
    ELSE LET zc == wr.keys[i]
             p  == Append(printed, Comparing(wr, zc))
         IN  IF wr.val[zc].max_temp < ct
             THEN CoolestLoop(wr, i + 1, zc, wr.val[zc].max_temp, p)
             ELSE CoolestLoop(wr, i + 1, cz, ct, p)

\* calculate_coolest_zip(weather_results, my_zip), my_zip a key of
\* weather_results: the zip code returned and the lines printed.
calculate_coolest_zip(wr, my_zip) ==
    CoolestLoop(wr, 1, my_zip, wr.val[my_zip].max_temp, <<>>)

Report(wr, zc) ==
    << Line("The current temperature in", wr.val[zc].city, zc, Round1(wr.val[zc].curr_temp)),
       Line("The max temperature in", wr.val[zc].city, zc, Round1(wr.val[zc].max_temp)) >>

\* display_results without the test of line 279: always the loop of line 299.
display_results_AlwaysBoth(wr, my_zip, cz) ==
    <<Text("")>> \o Report(wr, my_zip) \o <<Text("")>> \o Report(wr, cz)

\* display_results(weather_results, my_zip, coolest_zip): the lines printed
display_results(wr, my_zip, cz) ==
    IF my_zip = cz
    THEN <<Text("")>> \o Report(wr, my_zip)
         \o <<Text("Your zip code is expected to be the coolest in the surrounding radius.")>>
    ELSE <<Text("")>> \o Report(wr, my_zip) \o <<Text("")>> \o Report(wr, cz)

----------------------------------------------------------------------------
(* main(): one action per statement of the loop body *)

NoFailure == [where |-> "", exc |-> ""]

Init ==
    /\ db \in ZipDatabases
    /\ pc = "input"
    /\ input = <<>>
    /\ z = <<>>
    /\ loc_data = EmptyDict
    /\ zip_code = <<>>
    /\ nearby_locs = EmptyDict
    /\ responses = <<>>
    /\ weather_results = EmptyDict
    /\ coolest_zip = <<>>
    /\ output = <<>>
    /\ steps = <<>>
    /\ failure = NoFailure

\* line 29: zip_code = input("Enter your zip code: ").  The locals of the
\* previous iteration are dead from here on and are cleared.
MainInput ==
    /\ pc = "input"
    /\ \E s \in Inputs : input' = s
    /\ pc' = "get_zip_basics"
    /\ z' = <<>>
    /\ loc_data' = EmptyDict
    /\ zip_code' = <<>>
    /\ nearby_locs' = EmptyDict
    /\ responses' = <<>>
    /\ weather_results' = EmptyDict
    /\ coolest_zip' = <<>>
    /\ output' = <<>>
    /\ steps' = <<"input">>
    /\ UNCHANGED <<db, failure>>

\* line 31: loc_data, zip_code = get_zip_basics(zip_code)
MainGetZipBasics ==
    /\ pc = "get_zip_basics"
    /\ LET r == get_zip_basics(db, input)
       IN  /\ z' = r.z
           /\ loc_data' = r.zip_data
           /\ zip_code' = r.zip_code
           /\ output' = output \o r.printed
    /\ pc' = "get_local_zips"
    /\ steps' = Append(steps, "get_zip_basics")
    /\ UNCHANGED <<db, input, nearby_locs, responses, weather_results, coolest_zip, failure>>

\* lines 33-36: nearby_locs = get_local_zips(loc_data[zip_code]["lat"], ...)
\* and the count line; loc_data[zip_code] raises KeyError for a missing key.
MainGetLocalZips ==
    /\ pc = "get_local_zips"
    /\ IF zip_code \notin Keys(loc_data)
       THEN /\ pc' = "aborted"
            /\ failure' = [where |-> "main", exc |-> "KeyError"]
            /\ UNCHANGED <<nearby_locs, output, steps>>
       ELSE /\ \E result \in by_coordinates(db, loc_data.val[zip_code].lat,
                                            loc_data.val[zip_code].lng, RADIUS) :
                  /\ nearby_locs' = get_local_zips(result)
                  /\ output' = Append(output,
                                 Line("zip codes within radius", "", <<>>, Len(result)))
            /\ pc' = "confirm"
            /\ steps' = Append(steps, "get_local_zips")
            /\ UNCHANGED failure
    /\ UNCHANGED <<db, input, z, loc_data, zip_code, responses, weather_results, coolest_zip>>

\* line 37: input("Press any key to continue.")
MainConfirm ==
    /\ pc = "confirm"
    /\ pc' = "get_weather"
    /\ steps' = Append(steps, "confirm")
    /\ UNCHANGED <<db, input, z, loc_data, zip_code, nearby_locs, responses,
                   weather_results, coolest_zip, output, failure>>

WeatherBanner == <<Text(""), Text("Finding weather..."), Text("(This may take up to a minute.)")>>

\* line 39: weather_results = get_weather(nearby_locs), the API answering
WeatherAnswered ==
    /\ pc = "get_weather"
    /\ LET p == get_lat_long_params(nearby_locs)
       IN  \E resp \in weather_api(p.latitudes, p.longitudes) :
              /\ responses' = resp
              /\ weather_results' = get_weather(nearby_locs, resp)
    /\ output' = output \o WeatherBanner
    /\ pc' = "calculate_coolest_zip"
    /\ steps' = Append(steps, "get_weather")
    /\ UNCHANGED <<db, input, z, loc_data, zip_code, nearby_locs, coolest_zip, failure>>

\* line 187: the API answers with an error (or the request fails after the
\* retries): weather_api raises, nothing catches it.
WeatherRaised ==
    /\ pc = "get_weather"
    /\ output' = output \o WeatherBanner
    /\ pc' = "aborted"
    /\ failure' = [where |-> "get_weather", exc |-> "OpenMeteoRequestsError"]
    /\ UNCHANGED <<db, input, z, loc_data, zip_code, nearby_locs, responses,
                   weather_results, coolest_zip, steps>>

MainGetWeather == WeatherAnswered \/ WeatherRaised

\* line 44: coolest_zip = calculate_coolest_zip(weather_results, zip_code);
\* weather_results[coolest_zip] on line 233 raises KeyError for a missing key.
MainCalculateCoolestZip ==
    /\ pc = "calculate_coolest_zip"
    /\ IF zip_code \notin Keys(weather_results)
       THEN /\ pc' = "aborted"
            /\ failure' = [where |-> "calculate_coolest_zip", exc |-> "KeyError"]
            /\ UNCHANGED <<coolest_zip, output, steps>>
       ELSE /\ LET r == calculate_coolest_zip(weather_results, zip_code)
               IN  /\ coolest_zip' = r.coolest_zip
                   /\ output' = output \o r.printed
            /\ pc' = "display_results"
            /\ steps' = Append(steps, "calculate_coolest_zip")
            /\ UNCHANGED failure
    /\ UNCHANGED <<db, input, z, loc_data, zip_code, nearby_locs, responses, weather_results>>

\* lines 45-46: display_results(weather_results, zip_code, coolest_zip); print("")
MainDisplayResults ==
    /\ pc = "display_results"
    /\ output' = output \o display_results(weather_results, zip_code, coolest_zip)
                        \o <<Text("")>>
    /\ pc' = "input"
    /\ steps' = Append(steps, "display_results")
    /\ UNCHANGED <<db, input, z, loc_data, zip_code, nearby_locs, responses,
                   weather_results, coolest_zip, failure>>

Next ==
    \/ MainInput
    \/ MainGetZipBasics
    \/ MainGetLocalZips
    \/ MainConfirm
    \/ MainGetWeather
    \/ MainCalculateCoolestZip
    \/ MainDisplayResults

Spec == Init /\ [][Next]_vars

----------------------------------------------------------------------------
(* calculate_coolest_zip and display_results on every set of weather       *)
(* records over SelZips, in every scan order, for every originating key    *)

SelZips == { <<9, 4, 1, 0, 2>>, <<9, 4, 1, 0, 3>>, <<9, 4, 9, 6, 5>> }

SelOrders ==
    UNION { {s \in [1..n -> SelZips] : \A i, j \in 1..n : i # j => s[i] # s[j]}
            : n \in 1..Cardinality(SelZips) }

SelWeatherResults ==
    UNION { { [keys |-> ks,
               val  |-> [k \in {ks[i] : i \in 1..Len(ks)} |->
                            [city |-> "San Francisco", lat |-> 0, lng |-> 0,
                             curr_temp |-> t[k], max_temp |-> t[k]]]]
              : t \in [SelZips -> Temps] }
            : ks \in SelOrders }

SelInit ==
    /\ db \in {SFZips \cup OtherZips}
    /\ pc = "calculate_coolest_zip"
    /\ weather_results \in SelWeatherResults
    /\ zip_code \in Keys(weather_results)
    /\ input = zip_code
    /\ z = <<>>
    /\ loc_data = EmptyDict
    /\ nearby_locs = EmptyDict
    /\ responses = <<>>
    /\ coolest_zip = <<>>
    /\ output = <<>>
    /\ steps = <<>>
    /\ failure = NoFailure

SelNext ==
    \/ MainCalculateCoolestZip
    \/ MainDisplayResults

SelSpec == SelInit /\ [][SelNext]_vars

----------------------------------------------------------------------------
(* Properties *)

Printed(msg) == SelectSeq(output, LAMBDA l : l.msg = msg)

Done(step) == \E i \in 1..Len(steps) : steps[i] = step

MaxTempOf(k) == weather_results.val[k].max_temp

MinMaxTemp ==
    CHOOSE m \in {MaxTempOf(k) : k \in Keys(weather_results)} :
        \A k \in Keys(weather_results) : m <= MaxTempOf(k)

Tied == {k \in Keys(weather_results) : MaxTempOf(k) = MinMaxTemp}

FirstTied ==
    weather_results.keys[
        CHOOSE i \in 1..Len(weather_results.keys) :
            /\ weather_results.keys[i] \in Tied
            /\ \A j \in 1..(i - 1) : weather_results.keys[j] \notin Tied]

\* C1: calculate_coolest_zip returns a key of weather_results, and no record
\* of weather_results has a strictly smaller max_temp than the returned one.
C1_CoolestIsMinimum ==
    pc = "display_results" =>
        /\ coolest_zip \in Keys(weather_results)
        /\ \A k \in Keys(weather_results) : ~(MaxTempOf(k) < MaxTempOf(coolest_zip))

C1_Witness ==
    /\ pc = "display_results"
    /\ Len(weather_results.keys) = 3
    /\ coolest_zip # zip_code
    /\ coolest_zip # weather_results.keys[3]
    /\ MaxTempOf(weather_results.keys[3]) < MaxTempOf(zip_code)

\* C2: among the records that share the minimum max_temp the earliest-seen
\* wins: the originating record if it is tied, otherwise the tied record
\* that comes first in the scan order.
C2_TiesKeepEarliest ==
    pc = "display_results" =>
        coolest_zip = IF zip_code \in Tied THEN zip_code ELSE FirstTied

C2_Witness ==
    /\ pc = "display_results"
    /\ Cardinality(Tied) >= 2
    /\ zip_code \in Tied
    /\ FirstTied # zip_code
    /\ coolest_zip = zip_code

\* C3: get_zip_basics prints the 'Zipcode not found' notice exactly when the
\* lookup returned no result; then it returns "94101" with DEFAULT_ZIP_DATA;
\* otherwise the returned data is the result's city, latitude and longitude.
C3_FallbackIffLookupFails ==
    Done("get_zip_basics") =>
        /\ (z = <<>>) <=> (Len(Printed("Zipcode not found.")) > 0)
        /\ z = <<>> => /\ zip_code = ZIP_94101
                       /\ loc_data = DEFAULT_ZIP_DATA
        /\ z # <<>> => /\ loc_data.keys = <<z[1].zipcode>>
                       /\ loc_data.val[z[1].zipcode] =
                            [city |-> z[1].major_city, lat |-> z[1].lat, lng |-> z[1].lng]

C3_Witness ==
    /\ pc = "get_local_zips"
    /\ z = <<>>
    /\ input = <<9, 9, 9, 9, 9>>
    /\ zip_code = ZIP_94101

\* C4: an error response of the weather API does not abort the run.
C4_ErrorResponseDropped == failure.where # "get_weather"

\* C5: when the weather fetch yields no record, the iteration does not fail,
\* prints a notice and displays no temperature.
C5_EmptyResultsNotice ==
    (Done("get_weather") /\ weather_results.keys = <<>>) =>
        /\ pc # "aborted"
        /\ pc = "input" => /\ Len(Printed("No max_temp data")) > 0
                           /\ Len(Printed("The max temperature in")) = 0

\* C6: when calculate_coolest_zip starts, the originating zip code is a key
\* of nearby_locs and of weather_results.
C6_OriginInRadiusOutput ==
    pc = "calculate_coolest_zip" =>
        /\ zip_code \in Keys(nearby_locs)
        /\ zip_code \in Keys(weather_results)

\* C7: after get_weather every key of weather_results is a key of
\* nearby_locs, no zip code has two records, each record's city is that of
\* its zip code in nearby_locs, and the i-th response is the record of the
\* i-th zip code and answers that zip code's coordinates.
C7_RecordsMatchLocations ==
    Done("get_weather") =>
        /\ \A k \in Keys(weather_results) :
              /\ k \in Keys(nearby_locs)
              /\ weather_results.val[k].city = nearby_locs.val[k].city
              /\ weather_results.val[k].lat = nearby_locs.val[k].lat
              /\ weather_results.val[k].lng = nearby_locs.val[k].lng
        /\ \A i, j \in 1..Len(weather_results.keys) :
              i # j => weather_results.keys[i] # weather_results.keys[j]
        /\ \A i \in 1..Len(responses) :
              /\ weather_results.keys[i] = nearby_locs.keys[i]
              /\ weather_results.val[nearby_locs.keys[i]].max_temp = responses[i].daily_max
              /\ weather_results.val[nearby_locs.keys[i]].curr_temp = responses[i].current

C7_Witness ==
    /\ pc = "calculate_coolest_zip"
    /\ Len(responses) = 3
    /\ responses[1].daily_max # responses[3].daily_max
    /\ responses[1].Latitude # responses[3].Latitude

ReportedZips(msg) == [i \in 1..Len(Printed(msg)) |-> Printed(msg)[i].zip]

CoolestLine == "Your zip code is expected to be the coolest in the surrounding radius."

\* C8: display_results reports the origin alone, with the 'expected to be
\* the coolest' line, when coolest_zip equals my_zip; otherwise it reports
\* two locations, the origin first and the coolest second.
C8_ReportsOriginThenCoolest ==
    (pc = "input" /\ Done("display_results")) =>
        /\ ReportedZips("The current temperature in") = ReportedZips("The max temperature in")
        /\ Printed("The current temperature in")[1] =
              Line("The current temperature in", weather_results.val[zip_code].city,
                   zip_code, Round1(weather_results.val[zip_code].curr_temp))
        /\ Printed("The max temperature in")[1] =
              Line("The max temperature in", weather_results.val[zip_code].city,
                   zip_code, Round1(MaxTempOf(zip_code)))
        /\ IF coolest_zip = zip_code
           THEN /\ ReportedZips("The max temperature in") = <<zip_code>>
                /\ Len(Printed(CoolestLine)) = 1
           ELSE /\ ReportedZips("The max temperature in") = <<zip_code, coolest_zip>>
                /\ Len(Printed(CoolestLine)) = 0

C8_Witness ==
    /\ pc = "input"
    /\ Done("display_results")
    /\ coolest_zip # zip_code
    /\ ReportedZips("The max temperature in") = <<zip_code, coolest_zip>>

IterationOrder ==
    <<"input", "get_zip_basics", "get_local_zips", "confirm", "get_weather",
      "calculate_coolest_zip", "display_results">>

\* C9: the program has no exit state, and the steps of an iteration occur
\* once each in the order prompt, lookup, radius search, confirmation,
\* weather fetch, coolest selection, display.
C9_LoopsForever ==
    /\ pc # "aborted"
    /\ Len(steps) <= Len(IterationOrder)
    /\ steps = SubSeq(IterationOrder, 1, Len(steps))

\* C10: the zip code get_zip_basics returns is a key of the dictionary it
\* returns.
C10_ReturnedZipIsKey ==
    Done("get_zip_basics") => zip_code \in Keys(loc_data)

====
